---- MODULE Spec2Model ----
(***************************************************************************)
(* A model of btpy.py, the client of the btpd daemon's control socket.     *)
(*                                                                         *)
(* Python bytes are sequences of integers 0..255, Python str are sequences *)
(* of code points, and every position is 0-based as in the source.  The    *)
(* daemon is the environment: it answers each request with a frame of its  *)
(* choice, and the stream hands the frame over whole or short.             *)
(***************************************************************************)
EXTENDS Integers, Sequences, FiniteSets, TLC

(***************************************************************************)
(* Bytes literals.  B("li2ei") is Python's b'li2ei'.                       *)
(***************************************************************************)
Digits09 == "0123456789"

Lower == "abcdefghijklmnopqrstuvwxyz"

IndexIn(c, t) == CHOOSE n \in 1..Len(t) : SubSeq(t, n, n) = c

Ord(c) ==
  IF c = ":" THEN 58
  ELSE IF c = "-" THEN 45
  ELSE IF \E n \in 1..10 : SubSeq(Digits09, n, n) = c THEN 47 + IndexIn(c, Digits09)
  ELSE 96 + IndexIn(c, Lower)

B(s) == [k \in 1..Len(s) |-> Ord(SubSeq(s, k, k))]

Min(a, b) == IF a <= b THEN a ELSE b

Max(a, b) == IF a >= b THEN a ELSE b

(***************************************************************************)
(* Python's slice m[a:b]: a negative index counts from the end, and both   *)
(* ends are clamped to 0..len(m).                                          *)
(***************************************************************************)
NormIndex(n, i) == IF i < 0 THEN Max(n + i, 0) ELSE Min(i, n)

Slice(m, a, b) ==
  LET lo == NormIndex(Len(m), a)
      hi == NormIndex(Len(m), b)
  IN  IF hi <= lo THEN << >> ELSE SubSeq(m, lo + 1, hi)

(***************************************************************************)
(* Python's bytes.find(pat, start): the lowest position >= start at which  *)
(* pat occurs, or -1.                                                      *)
(***************************************************************************)
Find(m, pat, start) ==
  LET from == IF start < 0 THEN Max(Len(m) + start, 0) ELSE start
      hits == { p \in from..(Len(m) - Len(pat)) : SubSeq(m, p + 1, p + Len(pat)) = pat }
  IN  IF hits = {} THEN -1 ELSE CHOOSE p \in hits : \A q \in hits : p <= q

(***************************************************************************)
(* Python's str(n).encode() for an integer n.                              *)
(***************************************************************************)
RECURSIVE StrNat(_)
StrNat(n) == IF n < 10 THEN << 48 + n >> ELSE StrNat(n \div 10) \o << 48 + (n % 10) >>

Str(n) == IF n < 0 THEN << 45 >> \o StrNat(-n) ELSE StrNat(n)

(***************************************************************************)
(* Python's int(b) for bytes b: surrounding whitespace is dropped, then an *)
(* optional sign, then decimal digits that single underscores may          *)
(* separate.  Anything else is a ValueError: ok = FALSE.                   *)
(***************************************************************************)
IsSpace(c) == c \in {9, 10, 11, 12, 13, 32}

IsDigit(c) == c >= 48 /\ c <= 57

RECURSIVE LStrip(_)
LStrip(b) == IF b # << >> /\ IsSpace(Head(b)) THEN LStrip(Tail(b)) ELSE b

RECURSIVE RStrip(_)
RStrip(b) ==
  IF b # << >> /\ IsSpace(b[Len(b)]) THEN RStrip(SubSeq(b, 1, Len(b) - 1)) ELSE b

RECURSIVE Digits(_, _, _)
Digits(b, k, acc) ==
  IF k > Len(b) THEN [ok |-> TRUE, val |-> acc]
  ELSE IF IsDigit(b[k]) THEN Digits(b, k + 1, 10 * acc + (b[k] - 48))
  ELSE IF b[k] = 95 /\ k > 1 /\ k < Len(b) /\ IsDigit(b[k - 1]) /\ IsDigit(b[k + 1])
       THEN Digits(b, k + 1, acc)
  ELSE [ok |-> FALSE, val |-> 0]

ParseInt(b) ==
  LET s == RStrip(LStrip(b))
      signed == s # << >> /\ Head(s) \in {43, 45}
      body == IF signed THEN Tail(s) ELSE s
      d == IF body = << >> THEN [ok |-> FALSE, val |-> 0] ELSE Digits(body, 1, 0)
  IN  IF ~d.ok THEN d
      ELSE IF signed /\ Head(s) = 45 THEN [ok |-> TRUE, val |-> 0 - d.val]
      ELSE d

(***************************************************************************)
(* struct.pack('i', n) and struct.unpack('i', b): four bytes, two's        *)
(* complement, least significant byte first (the native order of the       *)
(* little-endian hosts btpd runs on).  unpack of other than four bytes is  *)
(* a struct.error: ok = FALSE.                                             *)
(***************************************************************************)
Pack(n) ==
  LET v == IF n < 0 THEN (n + 2147483647) + 1 ELSE n
      top == (v \div 16777216) + (IF n < 0 THEN 128 ELSE 0)
  IN  << v % 256, (v \div 256) % 256, (v \div 65536) % 256, top >>

Unpack(b) ==
  IF Len(b) # 4 THEN [ok |-> FALSE, val |-> 0]
  ELSE LET v == b[1] + 256 * b[2] + 65536 * b[3] + 16777216 * (b[4] % 128)
       IN  [ok |-> TRUE, val |-> IF b[4] >= 128 THEN (v - 2147483647) - 1 ELSE v]

(***************************************************************************)
(* bytes.decode('utf-8'): the code points of b, or a UnicodeDecodeError    *)
(* (ok = FALSE) at the first ill-formed sequence.                          *)
(***************************************************************************)
IsCont(c) == c >= 128 /\ c <= 191

RECURSIVE Utf8From(_, _, _)
Utf8From(b, k, acc) ==
  IF k > Len(b) THEN [ok |-> TRUE, val |-> acc]
  ELSE LET c == b[k]
           left == Len(b) - k
       IN  IF c < 128 THEN Utf8From(b, k + 1, Append(acc, c))
           ELSE IF c >= 194 /\ c <= 223 /\ left >= 1 /\ IsCont(b[k + 1])
                THEN Utf8From(b, k + 2, Append(acc, (c - 192) * 64 + (b[k + 1] - 128)))
           ELSE IF c >= 224 /\ c <= 239 /\ left >= 2 /\ IsCont(b[k + 1]) /\ IsCont(b[k + 2])
                   /\ (c = 224 => b[k + 1] >= 160) /\ (c = 237 => b[k + 1] <= 159)
                THEN Utf8From(b, k + 3,
                       Append(acc, (c - 224) * 4096 + (b[k + 1] - 128) * 64 + (b[k + 2] - 128)))
           ELSE IF c >= 240 /\ c <= 244 /\ left >= 3 /\ IsCont(b[k + 1]) /\ IsCont(b[k + 2])
                   /\ IsCont(b[k + 3])
                   /\ (c = 240 => b[k + 1] >= 144) /\ (c = 244 => b[k + 1] <= 143)
                THEN Utf8From(b, k + 4,
                       Append(acc, (c - 240) * 262144 + (b[k + 1] - 128) * 4096
                                   + (b[k + 2] - 128) * 64 + (b[k + 3] - 128)))
           ELSE [ok |-> FALSE, val |-> acc]

Utf8Decode(b) == Utf8From(b, 1, << >>)

(***************************************************************************)
(* binascii.hexlify(b).decode('utf-8'): two lowercase hex digits a byte.   *)
(***************************************************************************)
HexDigit(n) == IF n < 10 THEN 48 + n ELSE 87 + n

RECURSIVE Hexlify(_)
Hexlify(b) ==
  IF b = << >> THEN << >>
  ELSE << HexDigit(Head(b) \div 16), HexDigit(Head(b) % 16) >> \o Hexlify(Tail(b))

(***************************************************************************)
(* Python's str.encode() (UTF-8) of a str of code points below 65536.      *)
(***************************************************************************)
RECURSIVE Utf8Encode(_)
Utf8Encode(t) ==
  IF t = << >> THEN << >>
  ELSE LET c == Head(t)
       IN  (IF c < 128 THEN << c >>
            ELSE IF c < 2048 THEN << 192 + (c \div 64), 128 + (c % 64) >>
            ELSE << 224 + (c \div 4096), 128 + ((c \div 64) % 64), 128 + (c % 64) >>)
           \o Utf8Encode(Tail(t))

RECURSIVE Concat(_)
Concat(ss) == IF ss = << >> THEN << >> ELSE Head(ss) \o Concat(Tail(ss))

(***************************************************************************)
(* The module's tables.                                                    *)
(***************************************************************************)
errorCodes ==
  << "success", "communication error", "bad content directory", "bad torrent",
     "bad torrent entry", "bad tracker", "couldn't create content directory",
     "no such key", "no such torrent entry", "btpd is shutting down",
     "torrent is active", "torrent entry exists", "torrent is inactive" >>

Tags ==
  { "%#", "%n", "%t", "%d", "%h", "%P", "%^", "%v", "%g", "%u", "%D", "%U", "%S",
    "%A", "%T", "%H" }

dataFormat ==
  [ x \in Tags |->
      CASE x = "%#" -> "number" [] x = "%n" -> "title"   [] x = "%t" -> "state"
        [] x = "%d" -> "dir"    [] x = "%h" -> "hash"    [] x = "%P" -> "peers"
        [] x = "%^" -> "uprate" [] x = "%v" -> "downrate" [] x = "%g" -> "downed"
        [] x = "%u" -> "uped"   [] x = "%D" -> "rec"     [] x = "%U" -> "sent"
        [] x = "%S" -> "size"   [] x = "%A" -> "apieces" [] x = "%T" -> "tpieces"
        [] x = "%H" -> "hpieces" ]

Fields == { dataFormat[x] : x \in Tags }

\* self.decode of __init__: the nine fields the loop of _decode fills, in order.
decode ==
  << "size", "downed", "peers", "tpieces", "apieces", "hpieces", "sent", "rec", "uprate" >>

\* The attribute bag _clear builds: every field an empty list.
ClearData == [ f \in Fields |-> << >> ]

(***************************************************************************)
(* Python's tuple indexing t[i]: -len(t) <= i < len(t), a negative index   *)
(* counting from the end; anything else is an IndexError (ok = FALSE).     *)
(***************************************************************************)
TupleIndex(t, i) ==
  IF i >= 0 /\ i < Len(t) THEN [ok |-> TRUE, val |-> t[i + 1]]
  ELSE IF i < 0 /\ i >= 0 - Len(t) THEN [ok |-> TRUE, val |-> t[Len(t) + i + 1]]
  ELSE [ok |-> FALSE, val |-> ""]

(***************************************************************************)
(* Client._error: the code after the 8-byte prefix b'd4:codei', up to the  *)
(* next b'e', and its description.  exc is "none" when a pair is returned. *)
(***************************************************************************)
ErrorOf(message) ==
  LET end == Find(message, B("e"), 8)
      code == ParseInt(Slice(message, 8, end))
      desc == TupleIndex(errorCodes, code.val)
  IN  IF ~code.ok THEN [exc |-> "ValueError", pair |-> << >>]
      ELSE IF ~desc.ok THEN [exc |-> "IndexError", pair |-> << >>]
      ELSE [exc |-> "none", pair |-> << code.val, desc.val >>]

(***************************************************************************)
(* The requests the commands build.                                        *)
(***************************************************************************)
AddMessage(directory, data) ==
  B("l3:addd7:content") \o Str(Len(directory)) \o B(":") \o Utf8Encode(directory)
    \o B("7:torrent") \o Str(Len(data)) \o B(":") \o data \o B("ee")

DropMessage(number) == B("l3:deli") \o Str(number) \o B("ee")

StartMessage(number) == B("l5:starti") \o Str(number) \o B("ee")

StopMessage(number) == B("l4:stopi") \o Str(number) \o B("ee")

StartAllMessage == B("l9:start-alle")

StopAllMessage == B("18:stop-alle")

StatMessage ==
  B("l4:tgetd4:fromi0e4:keysli4ei14ei3ei16ei1ei0ei7ei8ei9ei6ei13ei12ei11ei10ei5ei2eeee")

NumberMessage(op, number) ==
  CASE op = "drop" -> DropMessage(number)
    [] op = "start" -> StartMessage(number)
    [] op = "stop" -> StopMessage(number)

\* What _send hands to sock.send: the packed length, then the message.
Frame(message) == Pack(Len(message)) \o message

(***************************************************************************)
(* Client._decode, one pass of its while loop over message from the cursor *)
(* start.  A scan state holds the source's start and end, the length of    *)
(* the last length-prefixed string, the columns of self.data, the          *)
(* exception raised if any, and miss: whether a find of this pass did not  *)
(* find its marker (the source goes on with the -1 it got).                *)
(***************************************************************************)
AppendField(s, f, bytes) ==
  LET d == Utf8Decode(bytes)
  IN  IF d.ok THEN [s EXCEPT !.data[f] = Append(@, d.val)]
      ELSE [s EXCEPT !.exc = "UnicodeDecodeError"]

\* start = end + skip; end = message.find(pat, start)
Seek(m, s, skip, pat) ==
  IF s.exc # "none" THEN s
  ELSE LET st == s.end + skip
           e == Find(m, pat, st)
       IN  [s EXCEPT !.start = st, !.end = e, !.miss = @ \/ e = -1]

\* self.data.<f>.append(message[start:end].decode('utf-8'))
Take(m, s, f) ==
  IF s.exc # "none" THEN s ELSE AppendField(s, f, Slice(m, s.start, s.end))

\* length = int(message[start:end]); start = end + 1;
\* self.data.<f>.append(message[start:start + length].decode('utf-8'))
TakeString(m, s, f) ==
  IF s.exc # "none" THEN s
  ELSE LET n == ParseInt(Slice(m, s.start, s.end))
           st == s.end + 1
       IN  IF ~n.ok THEN [s EXCEPT !.exc = "ValueError"]
           ELSE AppendField([s EXCEPT !.start = st, !.len = n.val], f,
                            Slice(m, st, st + n.val))

\* for x in range(0, 9): the nine fields of self.decode, x counted from 1 here.
RECURSIVE TakeNine(_, _, _)
TakeNine(m, s, x) ==
  IF x > Len(decode) THEN s
  ELSE TakeNine(m, Take(m, Seek(m, s, 5, B("ei2ei")), decode[x]), x + 1)

\* start = end + 7; end = start + 20; hash.append(hexlify(message[start:end]))
TakeHash(m, s) ==
  IF s.exc # "none" THEN s
  ELSE LET st == s.end + 7
       IN  [s EXCEPT !.start = st, !.end = st + 20,
                     !.data["hash"] = Append(@, Hexlify(Slice(m, st, st + 20)))]

\* start = message.find(b'li2ei', start) + 5, as the end the next Seek starts from.
FirstSeek(first, data, start) ==
  [start |-> start, end |-> first, len |-> 0, data |-> data, exc |-> "none",
   miss |-> first = -1]

\* end = start + length + 5
SkipTotal(s) == [s EXCEPT !.end = s.start + s.len + 5]

\* start = start + length; if message.find(b'eli', start) == -1: break
LastSeek(m, s) ==
  [s EXCEPT !.start = s.start + s.len,
            !.end = IF s.exc = "none" THEN Find(m, B("eli"), s.start + s.len) ELSE -1]

DecodeNumber(m, data, start) ==
  Take(m, Seek(m, FirstSeek(Find(m, B("li2ei"), start), data, start), 5, B("ei2ei")), "number")

DecodeTitle(m, s) ==
  TakeString(m, Seek(m, Take(m, Seek(m, s, 5, B("ei3e")), "state"), 4, B(":")), "title")

DecodeRates(m, s) ==
  Take(m, Seek(m, TakeNine(m, SkipTotal(s), 1), 5, B("ei1e20")), "downrate")

DecodeDir(m, s) == TakeString(m, Seek(m, TakeHash(m, s), 3, B(":")), "dir")

\* The pass: its end is -1 when the loop breaks, its start the next pass's cursor.
DecodePass(m, data, start) ==
  LastSeek(m, DecodeDir(m, DecodeRates(m, DecodeTitle(m, DecodeNumber(m, data, start)))))

\* The pass went on after a find that missed its marker.
PassMissed(m, data, start) == DecodePass(m, data, start).miss

(***************************************************************************)
(* Client.get_data: the columns of the tags asked for, in that order.      *)
(***************************************************************************)
GetData(data, tables) == [ k \in 1..Len(tables) |-> data[dataFormat[tables[k]]] ]

(***************************************************************************)
(* Client.add, after _recv: the number after b'numi'.                      *)
(***************************************************************************)
AddNumber(response) ==
  LET start == Find(response, B("numi"), 11) + 4
      end == Find(response, B("ee"), start)
  IN  ParseInt(Slice(response, start, end))

(***************************************************************************)
(* The daemon's side of the protocol, as _error, add and _decode assume    *)
(* it: the error envelope, the answer to add, and the list answer to tget  *)
(* with one inner list a torrent, its values in the order of the keys of   *)
(* the request (number, state, name, total uploaded, the nine fields of    *)
(* self.decode, download rate, info hash, directory).                      *)
(***************************************************************************)
EnvelopeBody(code) == B("d4:codei") \o Str(code) \o B("ee")

AddedBody(num) == B("d4:codei0e3:numi") \o Str(num) \o B("ee")

NumField(v) == B("i2ei") \o Str(v) \o B("e")

StrField(b) == B("i3e") \o Str(Len(b)) \o B(":") \o b

BinField(b) == B("i1e") \o Str(Len(b)) \o B(":") \o b

TorrentEntry(t) ==
  B("l") \o NumField(t.num) \o NumField(t.state) \o StrField(t.name) \o NumField(t.totup)
    \o NumField(t.size) \o NumField(t.downed) \o NumField(t.peers) \o NumField(t.tpieces)
    \o NumField(t.apieces) \o NumField(t.hpieces) \o NumField(t.sent) \o NumField(t.rec)
    \o NumField(t.uprate) \o NumField(t.downrate) \o BinField(t.hash) \o StrField(t.dir)
    \o B("e")

StatBody(ts) ==
  B("d4:codei0e6:resultl") \o Concat([ k \in 1..Len(ts) |-> TorrentEntry(ts[k]) ]) \o B("ee")

\* A list answer whose second inner list is no torrent's.
MalformedBody(ts) ==
  B("d4:codei0e6:resultl") \o Concat([ k \in 1..Len(ts) |-> TorrentEntry(ts[k]) ])
    \o B("li0ee") \o B("ee")

(***************************************************************************)
(* Bounds and the inputs drawn within them.                                *)
(***************************************************************************)
MaxCalls == 2

MaxArgs == 2

MaxTorrents == 2

MaxShort == 2

MaxRows == 4

\* Arguments of drop/start/stop: integers, the string '-a', another string.
IntArg(n) == [int |-> TRUE, num |-> n, str |-> ""]

StrArg(x) == [int |-> FALSE, num |-> 0, str |-> x]

ArgValues == { IntArg(0), IntArg(12), StrArg("-a"), StrArg("x") }

ArgLists == UNION { [1..n -> ArgValues] : n \in 0..MaxArgs }

\* Codes the daemon may put in an envelope: in the catalog and out of it.
ReplyCodes == { -1, 0, 12, 13 }

Torrent(num, name, totup, hash, dir) ==
  [num |-> num, state |-> 3, name |-> name, totup |-> totup, size |-> 11, downed |-> 2,
   peers |-> 3, tpieces |-> 4, apieces |-> 5, hpieces |-> 6, sent |-> 7, rec |-> 8,
   uprate |-> 9, downrate |-> 10, hash |-> hash, dir |-> dir]

\* 0x00, 0x01, ..., 0x13
CountingHash == [ k \in 1..20 |-> k - 1 ]

\* Twenty bytes that spell the scanner's markers.
MarkerHash == B("ei2eili2eiei1e20:eli")

Torrents ==
  { Torrent(0, B("a"), 0, CountingHash, B("d")),
    Torrent(12, B("ei2ei"), 0, MarkerHash, B("eli")),
    Torrent(7, << 195, 169 >>, 123456, CountingHash, B("d")),
    Torrent(7, << 255 >>, 0, CountingHash, B("d")) }

TorrentLists == UNION { [1..n -> Torrents] : n \in 0..MaxTorrents }

Envelopes == { [kind |-> "envelope", body |-> EnvelopeBody(c), torrents |-> << >>] : c \in ReplyCodes }

Replies(op) ==
  CASE op = "add" ->
         Envelopes \cup { [kind |-> "added", body |-> AddedBody(n), torrents |-> << >>] : n \in {0, 10} }
    [] op = "stat" ->
         { [kind |-> "envelope", body |-> EnvelopeBody(9), torrents |-> << >>] }
         \cup { [kind |-> "status", body |-> StatBody(ts), torrents |-> ts] : ts \in TorrentLists }
         \cup { [kind |-> "malformed", body |-> MalformedBody(ts), torrents |-> ts] :
                  ts \in { x \in TorrentLists : Len(x) = 1 } }
    [] OTHER -> Envelopes

Directories == { B("d"), << 233 >> }

TorrentFiles == { [readable |-> TRUE, data |-> B("de")], [readable |-> FALSE, data |-> << >>] }

(***************************************************************************)
(* The state of a Client and of its connections.                           *)
(*   pc        where the client is: "idle" between calls, "wait" after     *)
(*             _send (the daemon has the request), "recv" in _recv,        *)
(*             "decode" in the loop of _decode                             *)
(*   call      the command running or last run: its name, its arguments,   *)
(*             the index of the number in flight, the errors list so far   *)
(*   outcome   how the last call ended: what it returned or raised         *)
(*   conns     every socket opened so far: whether it is still open, how   *)
(*             many requests it carried, whether its response was read     *)
(*   trace     the exchanges of the current call: the bytes handed to      *)
(*             send, the daemon's answer, how much of it arrived, the body *)
(*             recv returned                                               *)
(*   response  self.response      length  the length _recv unpacked         *)
(*   hasData   whether self.data exists      data  the columns of self.data *)
(*   start     the cursor of _decode         calls  the calls made so far  *)
(***************************************************************************)
VARIABLES pc, call, outcome, conns, trace, response, length, hasData, data, start, calls

vars == << pc, call, outcome, conns, trace, response, length, hasData, data, start, calls >>

NoCall == [op |-> "none", args |-> << >>, i |-> 0, errors |-> << >>]

Pending == [kind |-> "pending", exc |-> "none", none |-> FALSE, value |-> << >>]

Returned(v) == [kind |-> "return", exc |-> "none", none |-> FALSE, value |-> v]

ReturnedNone == [kind |-> "return", exc |-> "none", none |-> TRUE, value |-> << >>]

Raised(e) == [kind |-> "raise", exc |-> e, none |-> FALSE, value |-> << >>]

Init ==
  /\ pc = "idle"
  /\ call = NoCall
  /\ outcome = [kind |-> "none", exc |-> "none", none |-> FALSE, value |-> << >>]
  /\ conns = << >>
  /\ trace = << >>
  /\ response = << >>
  /\ length = 0
  /\ hasData = FALSE
  /\ data = ClearData
  /\ start = 0
  /\ calls = 0

\* _connect: a new socket, open.  _send: one request on it.
Opened(cs) == Append(cs, [open |-> TRUE, requests |-> 1, read |-> FALSE])

Sent(tr, message) ==
  Append(tr, [request |-> Frame(message), replied |-> FALSE, reply |-> << >>,
              arrived |-> 0, gone |-> FALSE, kind |-> "", torrents |-> << >>,
              got |-> << >>])

\* _close on self.sock, the socket opened last.
Closed(cs) == [cs EXCEPT ![Len(cs)].open = FALSE]

\* A type check that looks at the first argument only.
AllIntFirstOnly(torrents) == torrents[1].int
AllInt(torrents) == \A k \in 1..Len(torrents) : torrents[k].int

HasAll(torrents) == \E k \in 1..Len(torrents) : ~torrents[k].int /\ torrents[k].str = "-a"

\* A call that raises before it sends anything.
Reject(op, torrents, exc) ==
  /\ pc' = "idle"
  /\ call' = [op |-> op, args |-> torrents, i |-> 0, errors |-> << >>]
  /\ outcome' = Raised(exc)
  /\ trace' = << >>
  /\ UNCHANGED << conns, response, length, hasData, data, start >>

\* The loop over the numbers, up to its first _send.
FirstNumber(op, torrents) ==
  /\ pc' = "wait"
  /\ call' = [op |-> op, args |-> torrents, i |-> 1, errors |-> << >>]
  /\ outcome' = Pending
  /\ conns' = Opened(conns)
  /\ trace' = Sent(<< >>, NumberMessage(op, torrents[1].num))
  /\ UNCHANGED << response, length, hasData, data, start >>

\* start/stop with '-a': _send, and nothing more.
SendAll(op, torrents, message) ==
  /\ pc' = "idle"
  /\ call' = [op |-> op, args |-> torrents, i |-> 0, errors |-> << >>]
  /\ outcome' = ReturnedNone
  /\ conns' = Opened(conns)
  /\ trace' = Sent(<< >>, message)
  /\ UNCHANGED << response, length, hasData, data, start >>

Begin ==
  /\ pc = "idle"
  /\ calls < MaxCalls
  /\ calls' = calls + 1

drop(torrents) ==
  /\ Begin
  /\ IF Len(torrents) = 0 THEN Reject("drop", torrents, "TypeError")
     ELSE IF ~AllInt(torrents) THEN Reject("drop", torrents, "TypeError")
     ELSE FirstNumber("drop", torrents)

startCmd(torrents) ==
  /\ Begin
  /\ IF Len(torrents) = 0 THEN Reject("start", torrents, "TypeError")
     ELSE IF HasAll(torrents) THEN SendAll("start", torrents, StartAllMessage)
     ELSE IF ~AllInt(torrents) THEN Reject("start", torrents, "TypeError")
     ELSE FirstNumber("start", torrents)

stop(torrents) ==
  /\ Begin
  /\ IF Len(torrents) = 0 THEN Reject("stop", torrents, "TypeError")
     ELSE IF HasAll(torrents) THEN SendAll("stop", torrents, StopAllMessage)
     ELSE IF ~AllInt(torrents) THEN Reject("stop", torrents, "TypeError")
     ELSE FirstNumber("stop", torrents)

add(directory, file) ==
  /\ Begin
  /\ IF ~file.readable THEN Reject("add", << >>, "OSError")
     ELSE /\ pc' = "wait"
          /\ call' = [op |-> "add", args |-> << >>, i |-> 0, errors |-> << >>]
          /\ outcome' = Pending
          /\ conns' = Opened(conns)
          /\ trace' = Sent(<< >>, AddMessage(directory, file.data))
          /\ UNCHANGED << response, length, hasData, data, start >>

stat ==
  /\ Begin
  /\ pc' = "wait"
  /\ call' = [op |-> "stat", args |-> << >>, i |-> 0, errors |-> << >>]
  /\ outcome' = Pending
  /\ hasData' = TRUE
  /\ data' = ClearData
  /\ conns' = Opened(conns)
  /\ trace' = Sent(<< >>, StatMessage)
  /\ UNCHANGED << response, length, start >>

(***************************************************************************)
(* The daemon answers the request in flight with a frame of its choice.    *)
(* arrived is how much of the frame is there when the client reads, and    *)
(* gone whether the daemon closed after that much (the peer closed early)  *)
(* or the rest comes later (the stream delivers the frame in pieces).      *)
(* Nothing arrives only when the daemon closed at once.                    *)
(***************************************************************************)
Arrivals(frame) == { a \in 0..Len(frame) : a >= Len(frame) - MaxShort \/ a = 0 }

Departures(frame, a) ==
  IF a = Len(frame) THEN { FALSE } ELSE IF a = 0 THEN { TRUE } ELSE BOOLEAN

Answered(tr, r, a, g) ==
  [tr EXCEPT ![Len(tr)] = [@ EXCEPT !.replied = TRUE, !.reply = r.body, !.arrived = a,
                                    !.gone = g, !.kind = r.kind, !.torrents = r.torrents]]

DaemonReply ==
  /\ pc = "wait"
  /\ \E r \in Replies(call.op) : \E a \in Arrivals(Frame(r.body)) :
       \E g \in Departures(Frame(r.body), a) : trace' = Answered(trace, r, a, g)
  /\ pc' = "recv"
  /\ UNCHANGED << call, outcome, conns, response, length, hasData, data, start, calls >>

\* sock.recv(n) on a stream with avail bytes there: at most n of them.
RecvSize(n, avail) == Min(n, avail)

\* The call ends in an exception raised in or after _recv.
Fail(exc) ==
  /\ pc' = "idle"
  /\ outcome' = Raised(exc)

\* The call returns v.
Return(v) ==
  /\ pc' = "idle"
  /\ outcome' = Returned(v)

Got(tr, body) == [tr EXCEPT ![Len(tr)].got = body]

\* drop/start/stop: errors.append(self._recv()), then the next number or return.
NextNumber(body, pair) ==
  IF call.i < Len(call.args)
  THEN /\ pc' = "wait"
       /\ call' = [call EXCEPT !.i = @ + 1, !.errors = Append(@, pair)]
       /\ conns' = Opened(Closed(conns))
       /\ trace' = Sent(Got(trace, body), NumberMessage(call.op, call.args[call.i + 1].num))
       /\ UNCHANGED << outcome, data, start >>
  ELSE /\ Return(Append(call.errors, pair))
       /\ call' = [call EXCEPT !.errors = Append(@, pair)]
       /\ conns' = Closed(conns)
       /\ trace' = Got(trace, body)
       /\ UNCHANGED << data, start >>

\* add: return error[0], error[1], int(self.response[start:end])
AddReturn(body, pair, number) ==
  /\ IF number.ok THEN Return(<< pair[1], pair[2], number.val >>) ELSE Fail("ValueError")
  /\ conns' = Closed(conns)
  /\ trace' = Got(trace, body)
  /\ UNCHANGED << call, data, start >>

\* stat: if self.response.find(b'li2', 18) != -1: self._decode(self.response)
StatReturn(body, pair) ==
  /\ IF Find(body, B("li2"), 18) # -1
     THEN pc' = "decode" /\ start' = 18 /\ UNCHANGED outcome
     ELSE Return(pair) /\ UNCHANGED start
  /\ call' = [call EXCEPT !.errors = << pair >>]
  /\ conns' = Closed(conns)
  /\ trace' = Got(trace, body)
  /\ UNCHANGED data

\* error = self._error(self.response); self._close(); return error
RecvError(body, error) ==
  IF error.exc # "none"
  THEN /\ Fail(error.exc)
       /\ conns' = [conns EXCEPT ![Len(conns)].read = TRUE]
       /\ trace' = Got(trace, body)
       /\ UNCHANGED << call, data, start >>
  ELSE CASE call.op = "add" -> AddReturn(body, error.pair, AddNumber(body))
         [] call.op = "stat" -> StatReturn(body, error.pair)
         [] OTHER -> NextNumber(body, error.pair)

\* self.response = self.sock.recv(length)
RecvBody(len, rest) ==
  IF len < 0
  THEN /\ Fail("ValueError")
       /\ UNCHANGED << call, conns, trace, response, length, data, start >>
  ELSE /\ length' = len
       /\ response' = SubSeq(rest, 1, RecvSize(len, Len(rest)))
       /\ RecvError(response', ErrorOf(response'))

\* length = self.sock.recv(4); length = struct.unpack('i', length)[0]
RecvLength(unpacked, rest) ==
  IF ~unpacked.ok
  THEN /\ Fail("struct.error")
       /\ UNCHANGED << call, conns, trace, response, length, data, start >>
  ELSE RecvBody(unpacked.val, rest)

\* The bytes of the frame that are there when _recv reads.
Wire(t) == SubSeq(Frame(t.reply), 1, t.arrived)

RecvFrom(wire) ==
  RecvLength(Unpack(SubSeq(wire, 1, RecvSize(4, Len(wire)))),
             SubSeq(wire, RecvSize(4, Len(wire)) + 1, Len(wire)))

recv ==
  /\ pc = "recv"
  /\ RecvFrom(Wire(trace[Len(trace)]))
  /\ UNCHANGED << hasData, calls >>

(***************************************************************************)
(* One pass of the while loop of _decode; stat returns when it breaks.     *)
(***************************************************************************)
DecodeStep(pass) ==
  /\ data' = pass.data
  /\ IF pass.exc # "none" THEN Fail(pass.exc) /\ UNCHANGED start
     ELSE IF pass.end = -1 THEN Return(call.errors[1]) /\ UNCHANGED start
     ELSE pc' = "decode" /\ start' = pass.start /\ UNCHANGED outcome

decodeLoop ==
  /\ pc = "decode"
  /\ Len(data["number"]) < MaxRows
  /\ DecodeStep(DecodePass(response, data, start))
  /\ UNCHANGED << call, conns, trace, response, length, hasData, calls >>

Next ==
  \/ \E torrents \in ArgLists : drop(torrents)
  \/ \E torrents \in ArgLists : startCmd(torrents)
  \/ \E torrents \in ArgLists : stop(torrents)
  \/ \E directory \in Directories, file \in TorrentFiles : add(directory, file)
  \/ stat
  \/ DaemonReply
  \/ recv
  \/ decodeLoop

Spec == Init /\ [][Next]_vars

(***************************************************************************)
(* What the claims speak of.                                               *)
(***************************************************************************)
Catalog == 0..12

\* The call named by call is over.
Finished == pc = "idle" /\ outcome.kind \in {"return", "raise"}

NumberOps == {"drop", "start", "stop"}

\* The exchange k of the current call: the daemon's whole answer was read.
ReadWhole(k) == trace[k].replied /\ trace[k].got = trace[k].reply

\* Bencoding, as the daemon parses a request: a byte string, a list.
BencString(b) == Str(Len(b)) \o B(":") \o b

BencList(items) == B("l") \o Concat(items) \o B("e")

AllCommand(op) ==
  IF op = "start" THEN BencList(<< BencString(B("start-all")) >>)
  ELSE BencList(<< BencString(B("stop-all")) >>)

\* C1: a drop/start/stop whose last answer read is the envelope of code c
\* returns the pair (c, catalog description of c) for it when c is in 0..12
\* and ends in a failure, returning no description, when c is any other
\* integer.
C1_EnvelopeDecoded ==
  \A c \in ReplyCodes :
    ( /\ Finished
      /\ call.op \in NumberOps
      /\ Len(trace) > 0
      /\ trace[Len(trace)].got = EnvelopeBody(c) )
    => IF c \in Catalog
       THEN /\ outcome.kind = "return"
            /\ outcome.value[Len(trace)] = << c, errorCodes[c + 1] >>
       ELSE outcome.kind = "raise"

\* The arguments C2 speaks of: none at all; for drop any non-integer; for
\* start and stop a non-integer and no '-a'.
Offending(op, args) ==
  \/ Len(args) = 0
  \/ op = "drop" /\ \E k \in 1..Len(args) : ~args[k].int
  \/ /\ op \in {"start", "stop"}
     /\ \E k \in 1..Len(args) : ~args[k].int
     /\ \A k \in 1..Len(args) : args[k].int \/ args[k].str # "-a"

\* C2: a call of drop/start/stop with offending arguments raises a TypeError
\* in the step that makes it: no connection is opened by it and no message
\* sent, also when integers come before the offending argument.
C2_ValidationBeforeIO ==
  [][ ( /\ pc = "idle"
        /\ calls' = calls + 1
        /\ call'.op \in NumberOps
        /\ Offending(call'.op, call'.args) )
      => ( /\ pc' = "idle"
           /\ outcome' = Raised("TypeError")
           /\ conns' = conns
           /\ trace' = << >> ) ]_vars

\* C2's case: drop was called with an integer and then '-a', and raised.
C2_Witness ==
  /\ call.op = "drop"
  /\ call.args = << IntArg(0), StrArg("-a") >>
  /\ outcome.kind = "raise"
  /\ calls = 2
  /\ Len(conns) > 0

\* C3: start and stop called with '-a' among their arguments send exactly
\* one message, the list holding the single token start-all for start and
\* stop-all for stop, whatever the other arguments.
C3_AllCommandSent ==
  ( /\ call.op \in {"start", "stop"}
    /\ \E k \in 1..Len(call.args) : ~call.args[k].int /\ call.args[k].str = "-a" )
  => /\ Len(trace) = 1
     /\ trace[1].request = Frame(AllCommand(call.op))

\* C4: a finished drop/start/stop of k >= 1 integers, each answered by the
\* daemon (still there) with the envelope of a catalog code, has sent the k
\* requests in input order and returned k pairs, the i-th the code and
\* description of the i-th answer.
C4_OneAnswerPerNumber ==
  ( /\ Finished
    /\ call.op \in NumberOps
    /\ Len(call.args) >= 1
    /\ \A k \in 1..Len(call.args) : call.args[k].int
    /\ \A k \in 1..Len(trace) :
         /\ ~trace[k].gone
         /\ \E c \in Catalog : trace[k].reply = EnvelopeBody(c) )
  => /\ outcome.kind = "return"
     /\ Len(outcome.value) = Len(call.args)
     /\ Len(trace) = Len(call.args)
     /\ \A k \in 1..Len(trace) :
          /\ trace[k].request = Frame(NumberMessage(call.op, call.args[k].num))
          /\ \E c \in Catalog :
               /\ trace[k].reply = EnvelopeBody(c)
               /\ outcome.value[k] = << c, errorCodes[c + 1] >>

\* C5: between calls every connection opened so far has carried exactly one
\* request, has had its response read, and is closed.
C5_ConnectionsOneShot ==
  pc = "idle" =>
    \A k \in 1..Len(conns) :
      ~conns[k].open /\ conns[k].requests = 1 /\ conns[k].read

\* C6: after a stat that read a whole list answer of N torrents, get_data
\* gives a column of exactly N entries for each of the 16 tags.
C6_ColumnsAligned ==
  ( /\ Finished
    /\ call.op = "stat"
    /\ trace[1].kind = "status"
    /\ ReadWhole(1) )
  => /\ outcome.kind = "return"
     /\ \A x \in Tags : Len(GetData(data, << x >>)[1]) = Len(trace[1].torrents)

\* C7: after a stat that read a whole list answer of N >= 0 torrents,
\* get_data('%n', '%#', '%h') gives exactly the N titles, numbers and
\* lowercase-hex hashes of the answer, in its order, whatever bytes the
\* titles and directories hold, and nothing of an earlier snapshot.
C7_SnapshotMatches ==
  ( /\ Finished
    /\ call.op = "stat"
    /\ trace[1].kind = "status"
    /\ ReadWhole(1) )
  => /\ outcome.kind = "return"
     /\ \A col \in 1..3 :
          Len(GetData(data, << "%n", "%#", "%h" >>)[col]) = Len(trace[1].torrents)
     /\ \A k \in 1..Len(trace[1].torrents) :
          /\ Utf8Encode(GetData(data, << "%n" >>)[1][k]) = trace[1].torrents[k].name
          /\ GetData(data, << "%#" >>)[1][k] = Str(trace[1].torrents[k].num)
          /\ GetData(data, << "%h" >>)[1][k] = Hexlify(trace[1].torrents[k].hash)

\* C8: an add answered with the envelope of a catalog failure code returns
\* a triple that starts with the code and its description; it does not raise.
C8_AddSurfacesError ==
  \A c \in Catalog \ {0} :
    ( /\ Finished
      /\ call.op = "add"
      /\ Len(trace) = 1
      /\ trace[1].got = EnvelopeBody(c) )
    => /\ outcome.kind = "return"
       /\ outcome.value[1] = c
       /\ outcome.value[2] = errorCodes[c + 1]

\* C9: the body _recv hands to the decoder has the length L of the prefix,
\* however the frame arrives; a call whose peer closed before the 4 + L
\* bytes were there fails.
C9_BodyHasPrefixLength ==
  /\ Len(response) = length
  /\ \A k \in 1..Len(trace) :
       ( /\ Finished
         /\ trace[k].replied
         /\ trace[k].gone
         /\ trace[k].arrived < Len(Frame(trace[k].reply)) )
       => outcome.kind = "raise"

\* C10: a pass of the status scanner in which a find misses its marker ends
\* the stat call in a failure; the scanner does not go on from the position
\* the failed find gave.
C10_ScannerStopsAtMiss ==
  [][ (pc = "decode" /\ PassMissed(response, data, start))
      => (pc' = "idle" /\ outcome'.kind = "raise") ]_vars
====
